---- MODULE Spec2Model ----
(***************************************************************************)
(* Excel worksheet grader: grade_excel_worksheet with its helpers          *)
(* get_cell_value and equal_values (grader.py, autograder.py), and the     *)
(* platform entry point main / __main__ / send_feedback (autograder.py).   *)
(*                                                                         *)
(* Cell values are records [t, s, neg, n]: t is the Python type of the     *)
(* value, s the characters of a str (the sequence of its code points),     *)
(* neg and n the sign and magnitude of a number.  Numbers and scores are   *)
(* IEEE-754 doubles, computed bit for bit.  Feedback texts are the         *)
(* sequences of the pieces the f-strings join.                             *)
(***************************************************************************)
EXTENDS Integers, Sequences, FiniteSets, TLC

VARIABLES
    entry,                \* which program runs: "local", "platform", "equal_values"
    pc,                   \* position in the running program
    hidden_test_cells,    \* the module-level list HIDDEN_TEST_CELLS
    student_file,         \* what load_workbook finds at the student path
    solution_file,        \* what load_workbook finds at the solution path
    student_wb,           \* loaded student workbook
    solution_wb,          \* loaded solution workbook
    matches,              \* local of grade_excel_worksheet
    total_cells,          \* local of grade_excel_worksheet
    hidden_tests_passed,  \* local of grade_excel_worksheet
    raised,               \* text of the exception the try block raised, "" if none
    result,               \* dict returned by grade_excel_worksheet
    part_id,              \* environment variable partId
    submission_dir,       \* os.listdir(SUBMISSION_LOCATION): names, or an error
    copy_err,             \* text of the exception shutil.copyfile raises, "" if none
    write_err,            \* text of the exception writing feedback.json raises, "" if none
    learner_file,         \* local of main
    scanned,              \* whether os.listdir was called
    stdout,               \* the JSON posts printed by send_feedback
    feedback_json,        \* content of /shared/feedback.json
    stderr,               \* lines printed by print_stderr
    val1, val2,           \* arguments of a direct equal_values call
    eq_result             \* its return value

gradeVars == <<hidden_test_cells, student_file, solution_file, student_wb,
               solution_wb, matches, total_cells, hidden_tests_passed, raised,
               result>>
mainVars  == <<part_id, submission_dir, copy_err, write_err, learner_file,
               scanned, stdout, feedback_json, stderr>>
eqVars    == <<val1, val2, eq_result>>
vars      == <<entry, pc, gradeVars, mainVars, eqVars>>

----------------------------------------------------------------------------
(* Bounds of the model *)

\* Widest indicator row with data: row 1 holds cells in columns 1..MaxCol.
MaxCol == 6
\* Longest directory listing of the submission location.
MaxFiles == 2

----------------------------------------------------------------------------
(* Numbers: IEEE-754 doubles                                               *)
(*                                                                         *)
(* A double is [m, e] with value m * 2^e: m is a natural number written in *)
(* limbs of LimbBits bits, least significant first, 2^52 <= m < 2^53; 0.0  *)
(* is [m |-> <<>>, e |-> 0].  Every operation computes the exact result    *)
(* and rounds it to 53 bits, ties to even, as the hardware does.  The      *)
(* operations are functions of natural numbers and doubles.                *)

LimbBits == 14
LimbBase == 2^LimbBits

\* The naturals of any size and the doubles.
BigNat == Seq(0..(LimbBase - 1))
Doubles == [m : BigNat, e : Int]

\* Natural numbers of any size: limbs, least significant first, no leading
\* zero limb; <<>> is 0.
BigFromNat[n \in Nat] ==
    IF n = 0 THEN <<>> ELSE <<n % LimbBase>> \o BigFromNat[n \div LimbBase]

BigToNat[a \in BigNat] == IF a = <<>> THEN 0 ELSE Head(a) + LimbBase * BigToNat[Tail(a)]

RestOf[a \in BigNat] == IF a = <<>> THEN <<>> ELSE Tail(a)
LowOf[a \in BigNat] == IF a = <<>> THEN 0 ELSE Head(a)

\* a + b + carry
BigAddC[a \in BigNat, b \in BigNat, carry \in Nat] ==
    IF a = <<>> /\ b = <<>>
    THEN IF carry = 0 THEN <<>> ELSE <<carry>>
    ELSE <<(LowOf[a] + LowOf[b] + carry) % LimbBase>>
         \o BigAddC[RestOf[a], RestOf[b], (LowOf[a] + LowOf[b] + carry) \div LimbBase]

BigAdd[a \in BigNat, b \in BigNat] == BigAddC[a, b, 0]

\* a * k + carry, for 0 < k < 2^16
BigMulSmall[a \in BigNat, k \in Nat, carry \in Nat] ==
    IF a = <<>> THEN BigFromNat[carry]
    ELSE <<(Head(a) * k + carry) % LimbBase>>
         \o BigMulSmall[Tail(a), k, (Head(a) * k + carry) \div LimbBase]

\* a * LimbBase^n
LimbShift[a \in BigNat, n \in Nat] == IF a = <<>> THEN <<>> ELSE [i \in 1..n |-> 0] \o a

BigMul[a \in BigNat, b \in BigNat] ==
    IF a = <<>> \/ b = <<>> THEN <<>>
    ELSE BigAdd[BigMulSmall[a, Head(b), 0], LimbShift[BigMul[a, Tail(b)], 1]]

\* Quotient limbs of a \div d for 0 < d < 2^16, from the top limb (index i)
\* down, with rem the remainder of the limbs above; leading zeros kept.
DivLimbs[a \in BigNat, i \in Nat, d \in Nat, rem \in Nat] ==
    IF i = 0 THEN <<>>
    ELSE DivLimbs[a, i - 1, d, (rem * LimbBase + a[i]) % d]
         \o <<(rem * LimbBase + a[i]) \div d>>

BigTrim[a \in BigNat] ==
    IF a # <<>> /\ a[Len(a)] = 0 THEN BigTrim[SubSeq(a, 1, Len(a) - 1)] ELSE a

BigDivSmall[a \in BigNat, d \in Nat] == BigTrim[DivLimbs[a, Len(a), d, 0]]

BigModSmall[a \in BigNat, i \in Nat, d \in Nat] ==
    IF i > Len(a) THEN 0
    ELSE ((BigModSmall[a, i + 1, d] * LimbBase) + a[i]) % d

\* Number of bits of n > 0, n < LimbBase.
LimbBitLen[n \in Nat] == CHOOSE k \in 1..LimbBits : 2^(k - 1) <= n /\ n < 2^k
\* Number of bits of a > 0.
BitLen[a \in BigNat] == LimbBits * (Len(a) - 1) + LimbBitLen[a[Len(a)]]

\* a * 2^k
BigShl[a \in BigNat, k \in Nat] == LimbShift[BigMulSmall[a, 2^(k % LimbBits), 0], k \div LimbBits]

\* a \div 2^k
BigShr[a \in BigNat, k \in Nat] ==
    IF k \div LimbBits >= Len(a) THEN <<>>
    ELSE BigDivSmall[SubSeq(a, (k \div LimbBits) + 1, Len(a)), 2^(k % LimbBits)]

\* Bit i of a (bit 0 is the lowest).
Bit[a \in BigNat, i \in Nat] ==
    IF (i \div LimbBits) + 1 > Len(a) THEN 0
    ELSE (a[(i \div LimbBits) + 1] \div 2^(i % LimbBits)) % 2

\* Some bit below bit j of a is set.
LowBitsSet[a \in BigNat, j \in Nat] ==
    \/ \E i \in 1..Len(a) : i <= j \div LimbBits /\ a[i] # 0
    \/ (j \div LimbBits) + 1 <= Len(a) /\ a[(j \div LimbBits) + 1] % 2^(j % LimbBits) # 0

\* a / 2^k rounded to the nearest integer, ties to even (k > 0).
ShrRound[a \in BigNat, k \in Nat] ==
    IF Bit[a, k - 1] = 1 /\ (LowBitsSet[a, k - 1] \/ Bit[a, k] = 1)
    THEN BigAdd[BigShr[a, k], <<1>>]
    ELSE BigShr[a, k]

FZero == [m |-> <<>>, e |-> 0]

\* The double nearest to n * 2^e, for n > 0 of len bits.
RoundBits[n \in BigNat, e \in Int, len \in Nat] ==
    IF len <= 53 THEN [m |-> BigShl[n, 53 - len], e |-> e - (53 - len)]
    ELSE IF BitLen[ShrRound[n, len - 53]] > 53
    THEN [m |-> BigShl[<<1>>, 52], e |-> e + (len - 53) + 1]
    ELSE [m |-> ShrRound[n, len - 53], e |-> e + (len - 53)]

\* The double nearest to n * 2^e.
Round[n \in BigNat, e \in Int] == IF n = <<>> THEN FZero ELSE RoundBits[n, e, BitLen[n]]

\* int / int (true division) of n >= 0 by 0 < d < 2^16: the quotient of
\* n * 2^70 with one more low bit that is set when the division left a
\* remainder, rounded.
FDivInt[n \in Nat, d \in Nat] ==
    Round[BigAdd[BigMulSmall[BigDivSmall[BigShl[BigFromNat[n], 70], d], 2, 0],
                 IF BigModSmall[BigShl[BigFromNat[n], 70], 1, d] # 0 THEN <<1>> ELSE <<>>],
          0 - 71]

\* x * y
FMul[x \in Doubles, y \in Doubles] == Round[BigMul[x.m, y.m], x.e + y.e]

\* x + y
FAdd[x \in Doubles, y \in Doubles] ==
    IF x.m = <<>> THEN y
    ELSE IF y.m = <<>> THEN x
    ELSE IF x.e <= y.e
    THEN Round[BigAdd[x.m, BigShl[y.m, y.e - x.e]], x.e]
    ELSE Round[BigAdd[BigShl[x.m, x.e - y.e], y.m], y.e]

\* a - b for a >= b.
BigSubB[a \in BigNat, b \in BigNat, borrow \in Nat] ==
    IF a = <<>> THEN <<>>
    ELSE <<(LimbBase + Head(a) - LowOf[b] - borrow) % LimbBase>>
         \o BigSubB[Tail(a), RestOf[b],
                    IF Head(a) - LowOf[b] - borrow < 0 THEN 1 ELSE 0]
BigSub[a \in BigNat, b \in BigNat] == BigTrim[BigSubB[a, b, 0]]

\* a < b
BigLess[a \in BigNat, b \in BigNat] ==
    IF Len(a) # Len(b) THEN Len(a) < Len(b)
    ELSE IF a = <<>> THEN FALSE
    ELSE IF a[Len(a)] # b[Len(b)] THEN a[Len(a)] < b[Len(b)]
    ELSE BigLess[SubSeq(a, 1, Len(a) - 1), SubSeq(b, 1, Len(b) - 1)]

\* The exact |x - y| of two doubles x, y >= 0, as [m, e] not yet rounded.
MagDiff[x \in Doubles, y \in Doubles] ==
    IF x.m = <<>> THEN y
    ELSE IF y.m = <<>> THEN x
    ELSE IF x.e <= y.e
    THEN [m |-> IF BigLess[x.m, BigShl[y.m, y.e - x.e]]
                THEN BigSub[BigShl[y.m, y.e - x.e], x.m]
                ELSE BigSub[x.m, BigShl[y.m, y.e - x.e]],
          e |-> x.e]
    ELSE [m |-> IF BigLess[y.m, BigShl[x.m, x.e - y.e]]
                THEN BigSub[BigShl[x.m, x.e - y.e], y.m]
                ELSE BigSub[y.m, BigShl[x.m, x.e - y.e]],
          e |-> y.e]

\* abs(x - y) for x, y >= 0
Rounded[v \in Doubles] == Round[v.m, v.e]
FAbsSub[x \in Doubles, y \in Doubles] == Rounded[MagDiff[x, y]]

\* x < y for x, y >= 0
FLess[x \in Doubles, y \in Doubles] ==
    IF y.m = <<>> THEN FALSE
    ELSE IF x.m = <<>> THEN TRUE
    ELSE IF x.e # y.e THEN x.e < y.e
    ELSE BigLess[x.m, y.m]

Digit2[k \in Nat] == IF k < 10 THEN "0" \o ToString(k) ELSE ToString(k)

\* Hundredths of x >= 0 (x < 2^24), rounded to the nearest, ties to even.
Hundredths[x \in Doubles] ==
    IF x.m = <<>> THEN 0
    ELSE IF x.e >= 0 THEN BigToNat[BigShl[BigMulSmall[x.m, 100, 0], x.e]]
    ELSE BigToNat[ShrRound[BigMulSmall[x.m, 100, 0], 0 - x.e]]

\* f"{x:.2f}" for x >= 0: the exact value of the double, rounded to two
\* decimals.
Fixed2[x \in Doubles] ==
    ToString(Hundredths[x] \div 100) \o "." \o Digit2[Hundredths[x] % 100]

\* The indicator row weighs 0.7 (a wrong variant).
YnWeight_Wrong == FDivInt[7, 10]

\* The literals 0.8, 0.2 and 100: the doubles nearest to 4/5, 1/5 and 100.
YnWeight == FDivInt[4, 5]
HiddenWeight == FDivInt[1, 5]
Hundred == FDivInt[100, 1]

----------------------------------------------------------------------------
(* Cell values *)

\* A cell value is [t, s, neg, n]: its type, its characters when a str, and
\* for a number its sign and its magnitude, a double.  A bool carries the
\* number it is as an int; a date carries its day number.
None         == [t |-> "none",  s |-> <<>>, neg |-> FALSE, n |-> FZero]
StrVal(cs)   == [t |-> "str",   s |-> cs,   neg |-> FALSE, n |-> FZero]
IntVal(k)    == [t |-> "int",   s |-> <<>>, neg |-> k < 0,
                 n |-> FDivInt[IF k < 0 THEN 0 - k ELSE k, 1]]
\* The float written num/den in decimal (1.0001 is FloatVal(10001, 10000)):
\* the double nearest to it.
FloatVal(num, den) ==
                [t |-> "float", s |-> <<>>, neg |-> num < 0,
                 n |-> FDivInt[IF num < 0 THEN 0 - num ELSE num, den]]
BoolVal(b)   == [t |-> "bool",  s |-> <<>>, neg |-> FALSE,
                 n |-> FDivInt[IF b THEN 1 ELSE 0, 1]]
DateVal(d)   == [t |-> "date",  s |-> <<>>, neg |-> FALSE, n |-> FDivInt[d, 1]]

EmptyStr == StrVal(<<>>)

\* isinstance(v, (int, float)): bool is a subclass of int.
IsNumeric(v) == v.t \in {"int", "float", "bool"}
\* isinstance(v, str)
IsStr(v) == v.t = "str"

\* Python's == on cell values: None equals only None, a str only an equal
\* str, numbers (int, float, bool) compare by numeric value, a date only an
\* equal date.
PyEq(a, b) ==
    IF a.t = "none" \/ b.t = "none" THEN a.t = b.t
    ELSE IF IsStr(a) \/ IsStr(b) THEN a.t = b.t /\ a.s = b.s
    ELSE IF a.t = "date" \/ b.t = "date" THEN a.t = b.t /\ a.n = b.n
    ELSE a.neg = b.neg /\ a.n = b.n

\* abs(val1 - val2) of two numbers
AbsDiff(a, b) == IF a.neg = b.neg THEN FAbsSub[a.n, b.n] ELSE FAdd[a.n, b.n]

\* The literal 0.0001
Tolerance == FDivInt[1, 10000]

\* A str is the sequence of its code points.  Text writes one from the
\* characters of a literal: the printable ASCII characters in order, code
\* points 32 to 95 and 97 to 126 (a grave accent is written 96).
AsciiTo95 ==
    << " ", "!", "\"", "#", "$", "%", "&", "'", "(", ")", "*", "+", ",", "-",
       ".", "/", "0", "1", "2", "3", "4", "5", "6", "7", "8", "9", ":", ";",
       "<", "=", ">", "?", "@", "A", "B", "C", "D", "E", "F", "G", "H", "I",
       "J", "K", "L", "M", "N", "O", "P", "Q", "R", "S", "T", "U", "V", "W",
       "X", "Y", "Z", "[", "\\", "]", "^", "_" >>
AsciiFrom97 ==
    << "a", "b", "c", "d", "e", "f", "g", "h", "i", "j", "k", "l", "m", "n",
       "o", "p", "q", "r", "s", "t", "u", "v", "w", "x", "y", "z", "{", "|",
       "}", "~" >>

Ord(ch) ==
    CASE ch = "\t" -> 9
      [] ch = "\n" -> 10
      [] ch = "\f" -> 12
      [] ch = "\r" -> 13
      [] \E i \in DOMAIN AsciiTo95 : AsciiTo95[i] = ch ->
            31 + CHOOSE i \in DOMAIN AsciiTo95 : AsciiTo95[i] = ch
      [] OTHER -> 96 + CHOOSE i \in DOMAIN AsciiFrom97 : AsciiFrom97[i] = ch

Text(chars) == [i \in 1..Len(chars) |-> Ord(chars[i])]

\* Some <<lo, hi, step>> of the set R holds c: lo <= c <= hi, c - lo a
\* multiple of step.
InRanges(c, R) ==
    \E r \in R : r[1] <= c /\ c <= r[2] /\ (c - r[1]) % r[3] = 0

\* The simple lower-case mapping of the Unicode Character Database 14.0 that
\* str.lower() applies: <<lo, hi, step, delta>> maps each c of the range
\* to c + delta.
LowerRanges ==
    { <<65, 90, 1, 32>>, <<192, 214, 1, 32>>, <<216, 222, 1, 32>>,
      <<256, 302, 2, 1>>, <<306, 310, 2, 1>>, <<313, 327, 2, 1>>,
      <<330, 374, 2, 1>>, <<376, 376, 1, -121>>, <<377, 381, 2, 1>>,
      <<385, 385, 1, 210>>, <<386, 388, 2, 1>>, <<390, 390, 1, 206>>,
      <<391, 391, 1, 1>>, <<393, 394, 1, 205>>, <<395, 395, 1, 1>>,
      <<398, 398, 1, 79>>, <<399, 399, 1, 202>>, <<400, 400, 1, 203>>,
      <<401, 401, 1, 1>>, <<403, 403, 1, 205>>, <<404, 404, 1, 207>>,
      <<406, 406, 1, 211>>, <<407, 407, 1, 209>>, <<408, 408, 1, 1>>,
      <<412, 412, 1, 211>>, <<413, 413, 1, 213>>, <<415, 415, 1, 214>>,
      <<416, 420, 2, 1>>, <<422, 422, 1, 218>>, <<423, 423, 1, 1>>,
      <<425, 425, 1, 218>>, <<428, 428, 1, 1>>, <<430, 430, 1, 218>>,
      <<431, 431, 1, 1>>, <<433, 434, 1, 217>>, <<435, 437, 2, 1>>,
      <<439, 439, 1, 219>>, <<440, 440, 1, 1>>, <<444, 444, 1, 1>>,
      <<452, 452, 1, 2>>, <<453, 453, 1, 1>>, <<455, 455, 1, 2>>,
      <<456, 456, 1, 1>>, <<458, 458, 1, 2>>, <<459, 475, 2, 1>>,
      <<478, 494, 2, 1>>, <<497, 497, 1, 2>>, <<498, 500, 2, 1>>,
      <<502, 502, 1, -97>>, <<503, 503, 1, -56>>, <<504, 542, 2, 1>>,
      <<544, 544, 1, -130>>, <<546, 562, 2, 1>>, <<570, 570, 1, 10795>>,
      <<571, 571, 1, 1>>, <<573, 573, 1, -163>>, <<574, 574, 1, 10792>>,
      <<577, 577, 1, 1>>, <<579, 579, 1, -195>>, <<580, 580, 1, 69>>,
      <<581, 581, 1, 71>>, <<582, 590, 2, 1>>, <<880, 882, 2, 1>>,
      <<886, 886, 1, 1>>, <<895, 895, 1, 116>>, <<902, 902, 1, 38>>,
      <<904, 906, 1, 37>>, <<908, 908, 1, 64>>, <<910, 911, 1, 63>>,
      <<913, 929, 1, 32>>, <<931, 939, 1, 32>>, <<975, 975, 1, 8>>,
      <<984, 1006, 2, 1>>, <<1012, 1012, 1, -60>>, <<1015, 1015, 1, 1>>,
      <<1017, 1017, 1, -7>>, <<1018, 1018, 1, 1>>, <<1021, 1023, 1, -130>>,
      <<1024, 1039, 1, 80>>, <<1040, 1071, 1, 32>>, <<1120, 1152, 2, 1>>,
      <<1162, 1214, 2, 1>>, <<1216, 1216, 1, 15>>, <<1217, 1229, 2, 1>>,
      <<1232, 1326, 2, 1>>, <<1329, 1366, 1, 48>>, <<4256, 4293, 1, 7264>>,
      <<4295, 4295, 1, 7264>>, <<4301, 4301, 1, 7264>>,
      <<5024, 5103, 1, 38864>>, <<5104, 5109, 1, 8>>,
      <<7312, 7354, 1, -3008>>, <<7357, 7359, 1, -3008>>,
      <<7680, 7828, 2, 1>>, <<7838, 7838, 1, -7615>>, <<7840, 7934, 2, 1>>,
      <<7944, 7951, 1, -8>>, <<7960, 7965, 1, -8>>, <<7976, 7983, 1, -8>>,
      <<7992, 7999, 1, -8>>, <<8008, 8013, 1, -8>>, <<8025, 8031, 2, -8>>,
      <<8040, 8047, 1, -8>>, <<8072, 8079, 1, -8>>, <<8088, 8095, 1, -8>>,
      <<8104, 8111, 1, -8>>, <<8120, 8121, 1, -8>>, <<8122, 8123, 1, -74>>,
      <<8124, 8124, 1, -9>>, <<8136, 8139, 1, -86>>, <<8140, 8140, 1, -9>>,
      <<8152, 8153, 1, -8>>, <<8154, 8155, 1, -100>>, <<8168, 8169, 1, -8>>,
      <<8170, 8171, 1, -112>>, <<8172, 8172, 1, -7>>,
      <<8184, 8185, 1, -128>>, <<8186, 8187, 1, -126>>,
      <<8188, 8188, 1, -9>>, <<8486, 8486, 1, -7517>>,
      <<8490, 8490, 1, -8383>>, <<8491, 8491, 1, -8262>>,
      <<8498, 8498, 1, 28>>, <<8544, 8559, 1, 16>>, <<8579, 8579, 1, 1>>,
      <<9398, 9423, 1, 26>>, <<11264, 11311, 1, 48>>, <<11360, 11360, 1, 1>>,
      <<11362, 11362, 1, -10743>>, <<11363, 11363, 1, -3814>>,
      <<11364, 11364, 1, -10727>>, <<11367, 11371, 2, 1>>,
      <<11373, 11373, 1, -10780>>, <<11374, 11374, 1, -10749>>,
      <<11375, 11375, 1, -10783>>, <<11376, 11376, 1, -10782>>,
      <<11378, 11378, 1, 1>>, <<11381, 11381, 1, 1>>,
      <<11390, 11391, 1, -10815>>, <<11392, 11490, 2, 1>>,
      <<11499, 11501, 2, 1>>, <<11506, 11506, 1, 1>>, <<42560, 42604, 2, 1>>,
      <<42624, 42650, 2, 1>>, <<42786, 42798, 2, 1>>, <<42802, 42862, 2, 1>>,
      <<42873, 42875, 2, 1>>, <<42877, 42877, 1, -35332>>,
      <<42878, 42886, 2, 1>>, <<42891, 42891, 1, 1>>,
      <<42893, 42893, 1, -42280>>, <<42896, 42898, 2, 1>>,
      <<42902, 42920, 2, 1>>, <<42922, 42922, 1, -42308>>,
      <<42923, 42923, 1, -42319>>, <<42924, 42924, 1, -42315>>,
      <<42925, 42925, 1, -42305>>, <<42926, 42926, 1, -42308>>,
      <<42928, 42928, 1, -42258>>, <<42929, 42929, 1, -42282>>,
      <<42930, 42930, 1, -42261>>, <<42931, 42931, 1, 928>>,
      <<42932, 42946, 2, 1>>, <<42948, 42948, 1, -48>>,
      <<42949, 42949, 1, -42307>>, <<42950, 42950, 1, -35384>>,
      <<42951, 42953, 2, 1>>, <<42960, 42960, 1, 1>>, <<42966, 42968, 2, 1>>,
      <<42997, 42997, 1, 1>>, <<65313, 65338, 1, 32>>,
      <<66560, 66599, 1, 40>>, <<66736, 66771, 1, 40>>,
      <<66928, 66938, 1, 39>>, <<66940, 66954, 1, 39>>,
      <<66956, 66962, 1, 39>>, <<66964, 66965, 1, 39>>,
      <<68736, 68786, 1, 64>>, <<71840, 71871, 1, 32>>,
      <<93760, 93791, 1, 32>>, <<125184, 125217, 1, 34>> }

\* The code points with the property Cased, as <<lo, hi, step>>.
CasedRanges ==
    { <<65, 90, 1>>, <<97, 122, 1>>, <<170, 170, 1>>, <<181, 181, 1>>,
      <<186, 186, 1>>, <<192, 214, 1>>, <<216, 246, 1>>, <<248, 442, 1>>,
      <<444, 447, 1>>, <<452, 659, 1>>, <<661, 696, 1>>, <<704, 705, 1>>,
      <<736, 740, 1>>, <<837, 837, 1>>, <<880, 883, 1>>, <<886, 887, 1>>,
      <<890, 893, 1>>, <<895, 895, 1>>, <<902, 904, 2>>, <<905, 906, 1>>,
      <<908, 910, 2>>, <<911, 929, 1>>, <<931, 1013, 1>>, <<1015, 1153, 1>>,
      <<1162, 1327, 1>>, <<1329, 1366, 1>>, <<1376, 1416, 1>>,
      <<4256, 4293, 1>>, <<4295, 4295, 1>>, <<4301, 4301, 1>>,
      <<4304, 4346, 1>>, <<4349, 4351, 1>>, <<5024, 5109, 1>>,
      <<5112, 5117, 1>>, <<7296, 7304, 1>>, <<7312, 7354, 1>>,
      <<7357, 7359, 1>>, <<7424, 7615, 1>>, <<7680, 7957, 1>>,
      <<7960, 7965, 1>>, <<7968, 8005, 1>>, <<8008, 8013, 1>>,
      <<8016, 8023, 1>>, <<8025, 8031, 2>>, <<8032, 8061, 1>>,
      <<8064, 8116, 1>>, <<8118, 8124, 1>>, <<8126, 8126, 1>>,
      <<8130, 8132, 1>>, <<8134, 8140, 1>>, <<8144, 8147, 1>>,
      <<8150, 8155, 1>>, <<8160, 8172, 1>>, <<8178, 8180, 1>>,
      <<8182, 8188, 1>>, <<8305, 8305, 1>>, <<8319, 8319, 1>>,
      <<8336, 8348, 1>>, <<8450, 8450, 1>>, <<8455, 8455, 1>>,
      <<8458, 8467, 1>>, <<8469, 8469, 1>>, <<8473, 8477, 1>>,
      <<8484, 8490, 2>>, <<8491, 8493, 1>>, <<8495, 8500, 1>>,
      <<8505, 8505, 1>>, <<8508, 8511, 1>>, <<8517, 8521, 1>>,
      <<8526, 8526, 1>>, <<8544, 8575, 1>>, <<8579, 8580, 1>>,
      <<9398, 9449, 1>>, <<11264, 11492, 1>>, <<11499, 11502, 1>>,
      <<11506, 11507, 1>>, <<11520, 11557, 1>>, <<11559, 11559, 1>>,
      <<11565, 11565, 1>>, <<42560, 42605, 1>>, <<42624, 42653, 1>>,
      <<42786, 42887, 1>>, <<42891, 42894, 1>>, <<42896, 42954, 1>>,
      <<42960, 42961, 1>>, <<42963, 42965, 2>>, <<42966, 42969, 1>>,
      <<42997, 42998, 1>>, <<43000, 43002, 1>>, <<43824, 43866, 1>>,
      <<43868, 43880, 1>>, <<43888, 43967, 1>>, <<64256, 64262, 1>>,
      <<64275, 64279, 1>>, <<65313, 65338, 1>>, <<65345, 65370, 1>>,
      <<66560, 66639, 1>>, <<66736, 66771, 1>>, <<66776, 66811, 1>>,
      <<66928, 66938, 1>>, <<66940, 66954, 1>>, <<66956, 66962, 1>>,
      <<66964, 66965, 1>>, <<66967, 66977, 1>>, <<66979, 66993, 1>>,
      <<66995, 67001, 1>>, <<67003, 67004, 1>>, <<67456, 67456, 1>>,
      <<67459, 67461, 1>>, <<67463, 67504, 1>>, <<67506, 67514, 1>>,
      <<68736, 68786, 1>>, <<68800, 68850, 1>>, <<71840, 71903, 1>>,
      <<93760, 93823, 1>>, <<119808, 119892, 1>>, <<119894, 119964, 1>>,
      <<119966, 119967, 1>>, <<119970, 119970, 1>>, <<119973, 119974, 1>>,
      <<119977, 119980, 1>>, <<119982, 119993, 1>>, <<119995, 119997, 2>>,
      <<119998, 120003, 1>>, <<120005, 120069, 1>>, <<120071, 120074, 1>>,
      <<120077, 120084, 1>>, <<120086, 120092, 1>>, <<120094, 120121, 1>>,
      <<120123, 120126, 1>>, <<120128, 120132, 1>>, <<120134, 120134, 1>>,
      <<120138, 120144, 1>>, <<120146, 120485, 1>>, <<120488, 120512, 1>>,
      <<120514, 120538, 1>>, <<120540, 120570, 1>>, <<120572, 120596, 1>>,
      <<120598, 120628, 1>>, <<120630, 120654, 1>>, <<120656, 120686, 1>>,
      <<120688, 120712, 1>>, <<120714, 120744, 1>>, <<120746, 120770, 1>>,
      <<120772, 120779, 1>>, <<122624, 122633, 1>>, <<122635, 122654, 1>>,
      <<125184, 125251, 1>>, <<127280, 127305, 1>>, <<127312, 127337, 1>>,
      <<127344, 127369, 1>> }

\* The code points with the property Case_Ignorable, as <<lo, hi, step>>.
CaseIgnorableRanges ==
    { <<39, 39, 1>>, <<46, 46, 1>>, <<58, 58, 1>>, <<94, 96, 2>>,
      <<168, 168, 1>>, <<173, 175, 2>>, <<180, 180, 1>>, <<183, 184, 1>>,
      <<688, 879, 1>>, <<884, 885, 1>>, <<890, 890, 1>>, <<900, 901, 1>>,
      <<903, 903, 1>>, <<1155, 1161, 1>>, <<1369, 1369, 1>>,
      <<1375, 1375, 1>>, <<1425, 1469, 1>>, <<1471, 1473, 2>>,
      <<1474, 1476, 2>>, <<1477, 1479, 2>>, <<1524, 1524, 1>>,
      <<1536, 1541, 1>>, <<1552, 1562, 1>>, <<1564, 1564, 1>>,
      <<1600, 1600, 1>>, <<1611, 1631, 1>>, <<1648, 1648, 1>>,
      <<1750, 1757, 1>>, <<1759, 1768, 1>>, <<1770, 1773, 1>>,
      <<1807, 1809, 2>>, <<1840, 1866, 1>>, <<1958, 1968, 1>>,
      <<2027, 2037, 1>>, <<2042, 2042, 1>>, <<2045, 2045, 1>>,
      <<2070, 2093, 1>>, <<2137, 2139, 1>>, <<2184, 2184, 1>>,
      <<2192, 2193, 1>>, <<2200, 2207, 1>>, <<2249, 2306, 1>>,
      <<2362, 2364, 2>>, <<2369, 2376, 1>>, <<2381, 2381, 1>>,
      <<2385, 2391, 1>>, <<2402, 2403, 1>>, <<2417, 2417, 1>>,
      <<2433, 2433, 1>>, <<2492, 2492, 1>>, <<2497, 2500, 1>>,
      <<2509, 2509, 1>>, <<2530, 2531, 1>>, <<2558, 2558, 1>>,
      <<2561, 2562, 1>>, <<2620, 2620, 1>>, <<2625, 2626, 1>>,
      <<2631, 2632, 1>>, <<2635, 2637, 1>>, <<2641, 2641, 1>>,
      <<2672, 2673, 1>>, <<2677, 2677, 1>>, <<2689, 2690, 1>>,
      <<2748, 2748, 1>>, <<2753, 2757, 1>>, <<2759, 2760, 1>>,
      <<2765, 2765, 1>>, <<2786, 2787, 1>>, <<2810, 2815, 1>>,
      <<2817, 2817, 1>>, <<2876, 2876, 1>>, <<2879, 2881, 2>>,
      <<2882, 2884, 1>>, <<2893, 2893, 1>>, <<2901, 2902, 1>>,
      <<2914, 2915, 1>>, <<2946, 2946, 1>>, <<3008, 3008, 1>>,
      <<3021, 3021, 1>>, <<3072, 3072, 1>>, <<3076, 3076, 1>>,
      <<3132, 3134, 2>>, <<3135, 3136, 1>>, <<3142, 3144, 1>>,
      <<3146, 3149, 1>>, <<3157, 3158, 1>>, <<3170, 3171, 1>>,
      <<3201, 3201, 1>>, <<3260, 3260, 1>>, <<3263, 3263, 1>>,
      <<3270, 3270, 1>>, <<3276, 3277, 1>>, <<3298, 3299, 1>>,
      <<3328, 3329, 1>>, <<3387, 3388, 1>>, <<3393, 3396, 1>>,
      <<3405, 3405, 1>>, <<3426, 3427, 1>>, <<3457, 3457, 1>>,
      <<3530, 3530, 1>>, <<3538, 3540, 1>>, <<3542, 3542, 1>>,
      <<3633, 3633, 1>>, <<3636, 3642, 1>>, <<3654, 3662, 1>>,
      <<3761, 3761, 1>>, <<3764, 3772, 1>>, <<3782, 3784, 2>>,
      <<3785, 3789, 1>>, <<3864, 3865, 1>>, <<3893, 3897, 2>>,
      <<3953, 3966, 1>>, <<3968, 3972, 1>>, <<3974, 3975, 1>>,
      <<3981, 3991, 1>>, <<3993, 4028, 1>>, <<4038, 4038, 1>>,
      <<4141, 4144, 1>>, <<4146, 4151, 1>>, <<4153, 4154, 1>>,
      <<4157, 4158, 1>>, <<4184, 4185, 1>>, <<4190, 4192, 1>>,
      <<4209, 4212, 1>>, <<4226, 4226, 1>>, <<4229, 4230, 1>>,
      <<4237, 4237, 1>>, <<4253, 4253, 1>>, <<4348, 4348, 1>>,
      <<4957, 4959, 1>>, <<5906, 5908, 1>>, <<5938, 5939, 1>>,
      <<5970, 5971, 1>>, <<6002, 6003, 1>>, <<6068, 6069, 1>>,
      <<6071, 6077, 1>>, <<6086, 6086, 1>>, <<6089, 6099, 1>>,
      <<6103, 6103, 1>>, <<6109, 6109, 1>>, <<6155, 6159, 1>>,
      <<6211, 6211, 1>>, <<6277, 6278, 1>>, <<6313, 6313, 1>>,
      <<6432, 6434, 1>>, <<6439, 6440, 1>>, <<6450, 6450, 1>>,
      <<6457, 6459, 1>>, <<6679, 6680, 1>>, <<6683, 6683, 1>>,
      <<6742, 6744, 2>>, <<6745, 6750, 1>>, <<6752, 6754, 2>>,
      <<6757, 6764, 1>>, <<6771, 6780, 1>>, <<6783, 6783, 1>>,
      <<6823, 6823, 1>>, <<6832, 6862, 1>>, <<6912, 6915, 1>>,
      <<6964, 6966, 2>>, <<6967, 6970, 1>>, <<6972, 6972, 1>>,
      <<6978, 6978, 1>>, <<7019, 7027, 1>>, <<7040, 7041, 1>>,
      <<7074, 7077, 1>>, <<7080, 7081, 1>>, <<7083, 7085, 1>>,
      <<7142, 7144, 2>>, <<7145, 7145, 1>>, <<7149, 7151, 2>>,
      <<7152, 7153, 1>>, <<7212, 7219, 1>>, <<7222, 7223, 1>>,
      <<7288, 7293, 1>>, <<7376, 7378, 1>>, <<7380, 7392, 1>>,
      <<7394, 7400, 1>>, <<7405, 7405, 1>>, <<7412, 7412, 1>>,
      <<7416, 7417, 1>>, <<7468, 7530, 1>>, <<7544, 7544, 1>>,
      <<7579, 7679, 1>>, <<8125, 8127, 2>>, <<8128, 8129, 1>>,
      <<8141, 8143, 1>>, <<8157, 8159, 1>>, <<8173, 8175, 1>>,
      <<8189, 8190, 1>>, <<8203, 8207, 1>>, <<8216, 8217, 1>>,
      <<8228, 8228, 1>>, <<8231, 8231, 1>>, <<8234, 8238, 1>>,
      <<8288, 8292, 1>>, <<8294, 8303, 1>>, <<8305, 8305, 1>>,
      <<8319, 8319, 1>>, <<8336, 8348, 1>>, <<8400, 8432, 1>>,
      <<11388, 11389, 1>>, <<11503, 11505, 1>>, <<11631, 11631, 1>>,
      <<11647, 11647, 1>>, <<11744, 11775, 1>>, <<11823, 11823, 1>>,
      <<12293, 12293, 1>>, <<12330, 12333, 1>>, <<12337, 12341, 1>>,
      <<12347, 12347, 1>>, <<12441, 12446, 1>>, <<12540, 12542, 1>>,
      <<40981, 40981, 1>>, <<42232, 42237, 1>>, <<42508, 42508, 1>>,
      <<42607, 42610, 1>>, <<42612, 42621, 1>>, <<42623, 42623, 1>>,
      <<42652, 42655, 1>>, <<42736, 42737, 1>>, <<42752, 42785, 1>>,
      <<42864, 42864, 1>>, <<42888, 42890, 1>>, <<42994, 42996, 1>>,
      <<43000, 43001, 1>>, <<43010, 43010, 1>>, <<43014, 43014, 1>>,
      <<43019, 43019, 1>>, <<43045, 43046, 1>>, <<43052, 43052, 1>>,
      <<43204, 43205, 1>>, <<43232, 43249, 1>>, <<43263, 43263, 1>>,
      <<43302, 43309, 1>>, <<43335, 43345, 1>>, <<43392, 43394, 1>>,
      <<43443, 43443, 1>>, <<43446, 43449, 1>>, <<43452, 43453, 1>>,
      <<43471, 43471, 1>>, <<43493, 43494, 1>>, <<43561, 43566, 1>>,
      <<43569, 43570, 1>>, <<43573, 43574, 1>>, <<43587, 43587, 1>>,
      <<43596, 43596, 1>>, <<43632, 43632, 1>>, <<43644, 43644, 1>>,
      <<43696, 43698, 2>>, <<43699, 43700, 1>>, <<43703, 43704, 1>>,
      <<43710, 43711, 1>>, <<43713, 43713, 1>>, <<43741, 43741, 1>>,
      <<43756, 43757, 1>>, <<43763, 43764, 1>>, <<43766, 43766, 1>>,
      <<43867, 43871, 1>>, <<43881, 43883, 1>>, <<44005, 44005, 1>>,
      <<44008, 44008, 1>>, <<44013, 44013, 1>>, <<64286, 64286, 1>>,
      <<64434, 64450, 1>>, <<65024, 65039, 1>>, <<65043, 65043, 1>>,
      <<65056, 65071, 1>>, <<65106, 65106, 1>>, <<65109, 65109, 1>>,
      <<65279, 65279, 1>>, <<65287, 65287, 1>>, <<65294, 65294, 1>>,
      <<65306, 65306, 1>>, <<65342, 65344, 2>>, <<65392, 65392, 1>>,
      <<65438, 65439, 1>>, <<65507, 65507, 1>>, <<65529, 65531, 1>>,
      <<66045, 66045, 1>>, <<66272, 66272, 1>>, <<66422, 66426, 1>>,
      <<67456, 67461, 1>>, <<67463, 67504, 1>>, <<67506, 67514, 1>>,
      <<68097, 68099, 1>>, <<68101, 68102, 1>>, <<68108, 68111, 1>>,
      <<68152, 68154, 1>>, <<68159, 68159, 1>>, <<68325, 68326, 1>>,
      <<68900, 68903, 1>>, <<69291, 69292, 1>>, <<69446, 69456, 1>>,
      <<69506, 69509, 1>>, <<69633, 69633, 1>>, <<69688, 69702, 1>>,
      <<69744, 69744, 1>>, <<69747, 69748, 1>>, <<69759, 69761, 1>>,
      <<69811, 69814, 1>>, <<69817, 69818, 1>>, <<69821, 69821, 1>>,
      <<69826, 69826, 1>>, <<69837, 69837, 1>>, <<69888, 69890, 1>>,
      <<69927, 69931, 1>>, <<69933, 69940, 1>>, <<70003, 70003, 1>>,
      <<70016, 70017, 1>>, <<70070, 70078, 1>>, <<70089, 70092, 1>>,
      <<70095, 70095, 1>>, <<70191, 70193, 1>>, <<70196, 70198, 2>>,
      <<70199, 70199, 1>>, <<70206, 70206, 1>>, <<70367, 70367, 1>>,
      <<70371, 70378, 1>>, <<70400, 70401, 1>>, <<70459, 70460, 1>>,
      <<70464, 70464, 1>>, <<70502, 70508, 1>>, <<70512, 70516, 1>>,
      <<70712, 70719, 1>>, <<70722, 70724, 1>>, <<70726, 70726, 1>>,
      <<70750, 70750, 1>>, <<70835, 70840, 1>>, <<70842, 70842, 1>>,
      <<70847, 70848, 1>>, <<70850, 70851, 1>>, <<71090, 71093, 1>>,
      <<71100, 71101, 1>>, <<71103, 71104, 1>>, <<71132, 71133, 1>>,
      <<71219, 71226, 1>>, <<71229, 71231, 2>>, <<71232, 71232, 1>>,
      <<71339, 71341, 2>>, <<71344, 71349, 1>>, <<71351, 71351, 1>>,
      <<71453, 71455, 1>>, <<71458, 71461, 1>>, <<71463, 71467, 1>>,
      <<71727, 71735, 1>>, <<71737, 71738, 1>>, <<71995, 71996, 1>>,
      <<71998, 71998, 1>>, <<72003, 72003, 1>>, <<72148, 72151, 1>>,
      <<72154, 72155, 1>>, <<72160, 72160, 1>>, <<72193, 72202, 1>>,
      <<72243, 72248, 1>>, <<72251, 72254, 1>>, <<72263, 72263, 1>>,
      <<72273, 72278, 1>>, <<72281, 72283, 1>>, <<72330, 72342, 1>>,
      <<72344, 72345, 1>>, <<72752, 72758, 1>>, <<72760, 72765, 1>>,
      <<72767, 72767, 1>>, <<72850, 72871, 1>>, <<72874, 72880, 1>>,
      <<72882, 72883, 1>>, <<72885, 72886, 1>>, <<73009, 73014, 1>>,
      <<73018, 73020, 2>>, <<73021, 73023, 2>>, <<73024, 73029, 1>>,
      <<73031, 73031, 1>>, <<73104, 73105, 1>>, <<73109, 73111, 2>>,
      <<73459, 73460, 1>>, <<78896, 78904, 1>>, <<92912, 92916, 1>>,
      <<92976, 92982, 1>>, <<92992, 92995, 1>>, <<94031, 94031, 1>>,
      <<94095, 94111, 1>>, <<94176, 94177, 1>>, <<94179, 94180, 1>>,
      <<110576, 110579, 1>>, <<110581, 110587, 1>>, <<110589, 110590, 1>>,
      <<113821, 113822, 1>>, <<113824, 113827, 1>>, <<118528, 118573, 1>>,
      <<118576, 118598, 1>>, <<119143, 119145, 1>>, <<119155, 119170, 1>>,
      <<119173, 119179, 1>>, <<119210, 119213, 1>>, <<119362, 119364, 1>>,
      <<121344, 121398, 1>>, <<121403, 121452, 1>>, <<121461, 121461, 1>>,
      <<121476, 121476, 1>>, <<121499, 121503, 1>>, <<121505, 121519, 1>>,
      <<122880, 122886, 1>>, <<122888, 122904, 1>>, <<122907, 122913, 1>>,
      <<122915, 122916, 1>>, <<122918, 122922, 1>>, <<123184, 123197, 1>>,
      <<123566, 123566, 1>>, <<123628, 123631, 1>>, <<125136, 125142, 1>>,
      <<125252, 125259, 1>>, <<127995, 127999, 1>>, <<917505, 917505, 1>>,
      <<917536, 917631, 1>>, <<917760, 917999, 1>> }

Cased[c \in Nat] == InRanges(c, CasedRanges)
CaseIgnorable[c \in Nat] == InRanges(c, CaseIgnorableRanges)

\* The lower case of one character out of context: U+0130 gives two
\* characters, a character of LowerRanges its image, any other itself.
LowerChar[c \in Nat] ==
    IF c = 304 THEN <<105, 775>>
    ELSE IF InRanges(c, LowerRanges)
    THEN <<c + (CHOOSE r \in LowerRanges :
                   r[1] <= c /\ c <= r[2] /\ (c - r[1]) % r[3] = 0)[4]>>
    ELSE <<c>>

\* A capital sigma at i is final: the nearest character before it that is
\* not case-ignorable is cased, and the nearest such character after it, if
\* any, is not cased.
FinalSigma[cs \in Seq(Nat), i \in Nat] ==
    LET before == {j \in 1..(i - 1) : ~CaseIgnorable[cs[j]]}
        after  == {j \in (i + 1)..Len(cs) : ~CaseIgnorable[cs[j]]}
    IN /\ before # {}
       /\ Cased[cs[CHOOSE j \in before : \A k \in before : k <= j]]
       /\ after # {} => ~Cased[cs[CHOOSE j \in after : \A k \in after : j <= k]]

\* The lower case of the character at i: a capital sigma (U+03A3) gives the
\* final sigma (U+03C2) or the small sigma (U+03C3).
LowerAt[cs \in Seq(Nat), i \in Nat] ==
    IF cs[i] = 931
    THEN IF FinalSigma[cs, i] THEN <<962>> ELSE <<963>>
    ELSE LowerChar[cs[i]]

LowerFrom[cs \in Seq(Nat), i \in Nat] ==
    IF i > Len(cs) THEN <<>> ELSE LowerAt[cs, i] \o LowerFrom[cs, i + 1]

\* str.lower()
Lower[cs \in Seq(Nat)] == LowerFrom[cs, 1]

\* The characters str.strip() removes: those for which str.isspace() holds.
IsSpace[c \in Nat] ==
    c \in (9..13) \cup (28..32) \cup {133, 160, 5760} \cup (8192..8202)
             \cup {8232, 8233, 8239, 8287, 12288}

LStrip[cs \in Seq(Nat)] ==
    IF cs # <<>> /\ IsSpace[Head(cs)] THEN LStrip[Tail(cs)] ELSE cs

RStrip[cs \in Seq(Nat)] ==
    IF cs # <<>> /\ IsSpace[cs[Len(cs)]]
    THEN RStrip[SubSeq(cs, 1, Len(cs) - 1)]
    ELSE cs

\* str.strip()
Strip[cs \in Seq(Nat)] == RStrip[LStrip[cs]]

\* val is None or val == ""
IsBlank(v) == v = None \/ PyEq(v, EmptyStr)

\* The blank rule looks at the kind of the second value only when it is None
\* (a wrong variant).
equal_values_Asym(a, b) ==
    IF IsBlank(a) /\ b = None THEN TRUE
    ELSE IF IsNumeric(a) /\ IsNumeric(b) THEN FLess[AbsDiff(a, b), Tolerance]
    ELSE IF IsStr(a) /\ IsStr(b) THEN Lower[Strip[a.s]] = Lower[Strip[b.s]]
    ELSE PyEq(a, b)

equal_values(a, b) ==
    IF IsBlank(a) /\ IsBlank(b) THEN TRUE
    ELSE IF IsNumeric(a) /\ IsNumeric(b) THEN FLess[AbsDiff(a, b), Tolerance]
    ELSE IF IsStr(a) /\ IsStr(b) THEN Lower[Strip[a.s]] = Lower[Strip[b.s]]
    ELSE PyEq(a, b)

----------------------------------------------------------------------------
(* Idle values of the parts of the state a program does not use *)

NoSheet  == [chart |-> FALSE, row1 |-> <<>>, cells |-> <<>>]
NoFile   == [err |-> "", sheetnames |-> {}, sheet |-> NoSheet]
NoWb     == [sheetnames |-> {}, sheet |-> NoSheet]
NoResult == [score |-> [m |-> <<>>, e |-> 0], feedback |-> <<>>, detail |-> <<>>]

GradeIdle ==
    /\ hidden_test_cells = <<>>
    /\ student_file = NoFile /\ solution_file = NoFile
    /\ student_wb = NoWb /\ solution_wb = NoWb
    /\ matches = 0 /\ total_cells = 0 /\ hidden_tests_passed = 0
    /\ raised = "" /\ result = NoResult

MainIdle ==
    /\ part_id = "" /\ submission_dir = [err |-> "", names |-> <<>>]
    /\ copy_err = "" /\ write_err = ""
    /\ learner_file = <<>> /\ scanned = FALSE
    /\ stdout = <<>> /\ feedback_json = <<>> /\ stderr = <<>>

EqIdle == val1 = None /\ val2 = None /\ eq_result = FALSE

----------------------------------------------------------------------------
(* Module-level configuration *)

STUDENT_SHEET_NAME  == "blank"
SOLUTION_SHEET_NAME == "solution"

\* The "cell" entries of HIDDEN_TEST_CELLS, in order.
HIDDEN_TEST_CELLS == <<"AD21", "M62", "AE187">>

\* Column letters of the hidden-test addresses.
ColumnLetters(addr) ==
    CASE addr = "AD21"  -> <<"A", "D">>
      [] addr = "M62"   -> <<"M">>
      [] addr = "AE187" -> <<"A", "E">>

LetterIndex(c) ==
    CASE c = "A" -> 1 [] c = "D" -> 4 [] c = "E" -> 5 [] c = "M" -> 13

\* Column number of an A1 address (base 26 over the letters).
RECURSIVE ColumnIndex(_)
ColumnIndex(letters) ==
    IF letters = <<>> THEN 0
    ELSE 26 * ColumnIndex(SubSeq(letters, 1, Len(letters) - 1))
         + LetterIndex(letters[Len(letters)])

HiddenAddrs == {HIDDEN_TEST_CELLS[i] : i \in 1..Len(HIDDEN_TEST_CELLS)}

----------------------------------------------------------------------------
(* Sheets: what the spreadsheet reader exposes *)

SetMax(S) == CHOOSE x \in S : \A y \in S : y <= x

\* sheet.max_column: the widest column holding a cell (1 for an empty sheet).
\* Row 1 holds cells in columns 1..Len(row1); a hidden-test cell is stored
\* when it has a value.
max_column(sheet) ==
    SetMax({1, Len(sheet.row1)}
           \cup {ColumnIndex(ColumnLetters(a)) : a \in
                   {b \in DOMAIN sheet.cells : sheet.cells[b] # None}})

\* sheet.cell(row=1, column=col).value: None where no cell is stored.
Row1Value(sheet, col) ==
    IF col <= Len(sheet.row1) THEN sheet.row1[col] ELSE None

\* get_cell_value(sheet, cell_addr): sheet[cell_addr].value, and None when the
\* lookup raises (a chartsheet cannot be subscripted).
get_cell_value(sheet, cell_addr) ==
    IF sheet.chart THEN None ELSE sheet.cells[cell_addr]

----------------------------------------------------------------------------
(* grade_excel_worksheet *)

\* student_cell.value is not None and solution_cell.value is not None
BothPresent(student_value, solution_value) ==
    student_value # None /\ solution_value # None

\* The indicator row compares with a tolerant comparison (a wrong variant).
CellsMatch_Tolerant(student_value, solution_value) ==
    equal_values(student_value, solution_value)

\* student_cell.value == solution_cell.value
CellsMatch(student_value, solution_value) == PyEq(student_value, solution_value)

\* The for loop over range(5, max_col + 1), from column col_idx on: how often
\* it increments the counter named ("total_cells" or "matches").
RECURSIVE IndicatorLoop(_, _, _, _, _)
IndicatorLoop(col_idx, max_col, student_sheet, solution_sheet, counter) ==
    IF col_idx > max_col THEN 0
    ELSE LET student_cell  == Row1Value(student_sheet, col_idx)
             solution_cell == Row1Value(solution_sheet, col_idx)
             incremented ==
                 /\ BothPresent(student_cell, solution_cell)
                 /\ counter = "matches" => CellsMatch(student_cell, solution_cell)
         IN (IF incremented THEN 1 ELSE 0)
            + IndicatorLoop(col_idx + 1, max_col, student_sheet, solution_sheet,
                            counter)

\* The loop stops at the first failing test (a wrong variant).
RECURSIVE HiddenLoop_StopAtFail(_, _, _, _)
HiddenLoop_StopAtFail(tests, student_sheet, solution_sheet, passed) ==
    IF tests = <<>> THEN passed
    ELSE IF equal_values(get_cell_value(student_sheet, Head(tests)),
                         get_cell_value(solution_sheet, Head(tests)))
         THEN HiddenLoop_StopAtFail(Tail(tests), student_sheet, solution_sheet,
                                    passed + 1)
         ELSE passed

\* The for loop over HIDDEN_TEST_CELLS, over the tests still to run.
RECURSIVE HiddenLoop(_, _, _, _)
HiddenLoop(tests, student_sheet, solution_sheet, passed) ==
    IF tests = <<>> THEN passed
    ELSE LET cell_addr      == Head(tests)
             student_value  == get_cell_value(student_sheet, cell_addr)
             solution_value == get_cell_value(solution_sheet, cell_addr)
         IN HiddenLoop(Tail(tests), student_sheet, solution_sheet,
                       passed + (IF equal_values(student_value, solution_value)
                                 THEN 1 ELSE 0))

\* yn_score = matches / total_cells if total_cells > 0 else 0.0
YnScore(m, t) == IF t > 0 THEN FDivInt[m, t] ELSE FZero

\* hidden_score = hidden_tests_passed / len(HIDDEN_TEST_CELLS), len > 0
HiddenScore(passed, len) == FDivInt[passed, len]

\* The two weights swapped (a wrong variant).
TotalScore_Swapped(yn_score, hidden_score) ==
    FAdd[FMul[yn_score, HiddenWeight], FMul[hidden_score, YnWeight]]

\* total_score = yn_score * 0.8 + hidden_score * 0.2
TotalScore(yn_score, hidden_score) ==
    FAdd[FMul[yn_score, YnWeight], FMul[hidden_score, HiddenWeight]]

\* The feedback f-string of a completed grading; percentage = total_score * 100.
GradeFeedback(total_score, m, t) ==
    <<"Your score: ", Fixed2[FMul[total_score, Hundred]],
      "%\nYou correctly matched ", ToString(m), " out of ", ToString(t),
      " cells.">>

\* The dict a completed grading returns; grader.py adds the raw counts.
GradeResult(m, t, passed, len) ==
    LET total_score == TotalScore(YnScore(m, t), HiddenScore(passed, len))
    IN [score |-> total_score,
        feedback |-> GradeFeedback(total_score, m, t),
        detail |-> IF entry = "local" THEN <<m, t, passed, len>> ELSE <<>>]

\* The except branch drops the error text (a wrong variant).
ExceptResult_NoText(e) ==
    [score |-> FZero,
     feedback |-> <<"Error grading your submission.">>,
     detail |-> <<>>]

\* The dict of the except branch.
ExceptResult(e) ==
    [score |-> FZero,
     feedback |-> <<"Error grading your submission: ", e>>,
     detail |-> <<>>]

StudentSheetMissing ==
    [score |-> FZero,
     feedback |-> <<"Error: Worksheet '", STUDENT_SHEET_NAME,
                    "' not found in your submission.">>,
     detail |-> <<>>]

SolutionSheetMissing ==
    [score |-> FZero,
     feedback |-> IF entry = "local"
                  THEN <<"Error: Solution worksheet not found.">>
                  ELSE <<"Error: Internal error - Solution worksheet not found.">>,
     detail |-> <<>>]

\* An exception inside the try block: caught, and the error dict returned.
Except(e) ==
    /\ raised' = e
    /\ result' = ExceptResult(e)
    /\ pc' = "returned"

\* openpyxl.load_workbook of both files.
LoadWorkbooks ==
    /\ pc = "load"
    /\ IF student_file.err # ""
       THEN Except(student_file.err) /\ UNCHANGED <<student_wb, solution_wb>>
       ELSE IF solution_file.err # ""
       THEN /\ Except(solution_file.err)
            /\ student_wb' = [sheetnames |-> student_file.sheetnames,
                              sheet |-> student_file.sheet]
            /\ UNCHANGED solution_wb
       ELSE /\ student_wb' = [sheetnames |-> student_file.sheetnames,
                              sheet |-> student_file.sheet]
            /\ solution_wb' = [sheetnames |-> solution_file.sheetnames,
                               sheet |-> solution_file.sheet]
            /\ pc' = "verify"
            /\ UNCHANGED <<raised, result>>
    /\ UNCHANGED <<entry, hidden_test_cells, student_file, solution_file,
                   matches, total_cells, hidden_tests_passed, mainVars, eqVars>>

\* Only the student sheet is verified (a wrong variant).
VerifySheets_StudentOnly ==
    /\ pc = "verify"
    /\ IF STUDENT_SHEET_NAME \notin student_wb.sheetnames
       THEN result' = StudentSheetMissing /\ pc' = "returned"
       ELSE pc' = "indicator" /\ UNCHANGED result
    /\ UNCHANGED <<entry, hidden_test_cells, student_file, solution_file,
                   student_wb, solution_wb, matches, total_cells,
                   hidden_tests_passed, raised, mainVars, eqVars>>

\* "Verify sheets exist": the two early returns.
VerifySheets ==
    /\ pc = "verify"
    /\ IF STUDENT_SHEET_NAME \notin student_wb.sheetnames
       THEN result' = StudentSheetMissing /\ pc' = "returned"
       ELSE IF SOLUTION_SHEET_NAME \notin solution_wb.sheetnames
       THEN result' = SolutionSheetMissing /\ pc' = "returned"
       ELSE pc' = "indicator" /\ UNCHANGED result
    /\ UNCHANGED <<entry, hidden_test_cells, student_file, solution_file,
                   student_wb, solution_wb, matches, total_cells,
                   hidden_tests_passed, raised, mainVars, eqVars>>

\* PART 1: the indicator-row pass.  A chartsheet has no max_column.
IndicatorPass ==
    /\ pc = "indicator"
    /\ LET student_sheet  == student_wb.sheet
           solution_sheet == solution_wb.sheet
       IN IF solution_sheet.chart \/ student_sheet.chart
          THEN /\ Except("'Chartsheet' object has no attribute 'max_column'")
               /\ UNCHANGED <<matches, total_cells>>
          ELSE LET max_col == SetMax({max_column(solution_sheet),
                                      max_column(student_sheet)})
               IN /\ matches' = IndicatorLoop(5, max_col, student_sheet,
                                           solution_sheet, "matches")
                  /\ total_cells' = IndicatorLoop(5, max_col, student_sheet,
                                               solution_sheet, "total_cells")
                  /\ pc' = "hidden"
                  /\ UNCHANGED <<raised, result>>
    /\ UNCHANGED <<entry, hidden_test_cells, student_file, solution_file,
                   student_wb, solution_wb, hidden_tests_passed, mainVars,
                   eqVars>>

\* PART 2: the hidden-test pass.
HiddenPass ==
    /\ pc = "hidden"
    /\ hidden_tests_passed' =
           HiddenLoop(hidden_test_cells, student_wb.sheet, solution_wb.sheet, 0)
    /\ pc' = "score"
    /\ UNCHANGED <<entry, hidden_test_cells, student_file, solution_file,
                   student_wb, solution_wb, matches, total_cells, raised,
                   result, mainVars, eqVars>>

\* Score, feedback and return; dividing by len(HIDDEN_TEST_CELLS) raises
\* ZeroDivisionError when the list is empty.
ComputeScore ==
    /\ pc = "score"
    /\ IF Len(hidden_test_cells) = 0
       THEN Except("division by zero")
       ELSE /\ result' = GradeResult(matches, total_cells, hidden_tests_passed,
                                     Len(hidden_test_cells))
            /\ pc' = "returned"
            /\ UNCHANGED raised
    /\ UNCHANGED <<entry, hidden_test_cells, student_file, solution_file,
                   student_wb, solution_wb, matches, total_cells,
                   hidden_tests_passed, mainVars, eqVars>>

----------------------------------------------------------------------------
(* Inputs of a grading call *)

\* Row-1 values of a student sheet, of a solution sheet, and of the label
\* columns 1..4.
StudentRowValues  == {None, StrVal(Text(<<"Y">>)), StrVal(Text(<<"y">>))}
SolutionRowValues == {None, StrVal(Text(<<"Y">>))}
LabelValues       == {None, StrVal(Text(<<"Y">>))}

\* Values of the hidden-test cells of a student sheet.
StudentHiddenValues == {None, FloatVal(10001, 10000)}

SeqsUpTo(S, n) == UNION {[1..k -> S] : k \in 0..n}

\* Row 1: four label cells, then up to MaxCol - 4 indicator cells.
Rows(values) ==
    {<<l, l, l, l>> \o data : l \in LabelValues, data \in SeqsUpTo(values, MaxCol - 4)}

\* Hidden-test cells of a student sheet, and of a solution sheet: the number
\* 1 except in the cells named, or no value at all.
StudentHiddenCells  == [HiddenAddrs -> StudentHiddenValues]
SolutionHiddenCells ==
    {[a \in HiddenAddrs |-> IF a \in blank THEN None ELSE IntVal(1)] :
        blank \in {{"M62"}, HiddenAddrs}}

Sheets(rowValues, hiddenCells) ==
    {[chart |-> FALSE, row1 |-> r, cells |-> h] :
        r \in Rows(rowValues), h \in hiddenCells}

ChartSheet == [chart |-> TRUE, row1 |-> <<>>, cells |-> [a \in HiddenAddrs |-> None]]

Files(name, sheets) ==
    {[err |-> "File is not a zip file", sheetnames |-> {}, sheet |-> NoSheet],
     [err |-> "", sheetnames |-> {"Sheet1"}, sheet |-> NoSheet]}
    \cup {[err |-> "", sheetnames |-> {name}, sheet |-> sh] :
            sh \in sheets \cup {ChartSheet}}

StudentFiles  == Files(STUDENT_SHEET_NAME, Sheets(StudentRowValues, StudentHiddenCells))
SolutionFiles == Files(SOLUTION_SHEET_NAME, Sheets(SolutionRowValues, SolutionHiddenCells))

GradeStart ==
    /\ student_wb = NoWb /\ solution_wb = NoWb
    /\ matches = 0 /\ total_cells = 0 /\ hidden_tests_passed = 0
    /\ raised = "" /\ result = NoResult

\* grader.py: grade_excel_worksheet called directly.
Init ==
    /\ entry = "local" /\ pc = "load"
    /\ hidden_test_cells = HIDDEN_TEST_CELLS
    /\ student_file \in StudentFiles
    /\ solution_file \in SolutionFiles
    /\ GradeStart /\ MainIdle /\ EqIdle

Next ==
    \/ LoadWorkbooks
    \/ VerifySheets
    \/ IndicatorPass
    \/ HiddenPass
    \/ ComputeScore

Spec == Init /\ [][Next]_vars

----------------------------------------------------------------------------
(* Properties of grade_excel_worksheet (specification Spec) *)

\* The doubles 1.0, 0.0, 0.8 and 0.2, bit by bit.
One   == [m |-> <<0, 0, 0, 1024>>, e |-> 0 - 52]
Zero  == [m |-> <<>>, e |-> 0]
Dot8  == [m |-> <<6554, 9830, 6553, 1638>>, e |-> 0 - 53]
Dot2  == [m |-> <<6554, 9830, 6553, 1638>>, e |-> 0 - 55]

\* Both workbooks loaded.
Loaded == student_file.err = "" /\ solution_file.err = ""
\* Both required sheets are there.
SheetsPresent ==
    /\ "blank" \in student_file.sheetnames
    /\ "solution" \in solution_file.sheetnames
\* The call returned the result of a grading that ran to its end.
Completed == pc = "returned" /\ Loaded /\ SheetsPresent /\ raised = ""

\* Columns the indicator-row pass scans.
ScanCols ==
    5..SetMax({max_column(student_file.sheet), max_column(solution_file.sheet)})
StudentAt(c)  == Row1Value(student_file.sheet, c)
SolutionAt(c) == Row1Value(solution_file.sheet, c)
\* Columns with a value in both sheets.
CountedCols == {c \in ScanCols : StudentAt(c) # None /\ SolutionAt(c) # None}
\* Every row-1 cell from column 5 on matches exactly.
AllIndicatorMatch == \A c \in ScanCols : PyEq(StudentAt(c), SolutionAt(c))
\* Hidden tests that pass.
PassingTests(studentCells, solutionCells) ==
    {a \in HiddenAddrs : equal_values(studentCells[a], solutionCells[a])}
PassCount == Cardinality(PassingTests(student_file.sheet.cells, solution_file.sheet.cells))
AllHiddenMatch == PassCount = Cardinality(HiddenAddrs)

\* C1 as stated: whenever every row-1 cell from column 5 on matches exactly
\* and every hidden test passes, the score is exactly 1.0, also when no
\* column from 5 on has a value in both sheets.
C1_AllMatchScoresOne_Original ==
    (Completed /\ AllIndicatorMatch /\ AllHiddenMatch) => result.score = One

\* C1 amended: whenever every row-1 cell from column 5 on matches exactly,
\* at least one such column has a value in both sheets, and every hidden test
\* passes, the score is exactly 1.0; with no such column it is 0.2.
C1_AllMatchScoresOne ==
    (Completed /\ AllIndicatorMatch /\ AllHiddenMatch) =>
        IF CountedCols # {} THEN result.score = One
        ELSE result.score = Dot2

C1_Witness ==
    /\ Completed /\ AllIndicatorMatch /\ AllHiddenMatch
    /\ Cardinality(CountedCols) = MaxCol - 4
    /\ \E a \in HiddenAddrs : student_file.sheet.cells[a] # None
    /\ result.score = One

\* C2: a completed grading returns yn_score * 0.8 + hidden_score * 0.2 with
\* yn_score = matches / total_cells (0 when total_cells = 0) and
\* hidden_score = hidden_tests_passed / 3: all indicator cells matching gives
\* 0.8 with no hidden pass and 0.8 + (2/3) * 0.2 with two.
C2_WeightedScore ==
    Completed =>
        /\ hidden_tests_passed = PassCount
        /\ result.score =
              FAdd[FMul[IF total_cells > 0 THEN FDivInt[matches, total_cells] ELSE Zero,
                        Dot8],
                   FMul[FDivInt[hidden_tests_passed, 3], Dot2]]
        /\ (total_cells > 0 /\ matches = total_cells /\ hidden_tests_passed = 0)
               => result.score = Dot8
        /\ (total_cells > 0 /\ matches = total_cells /\ hidden_tests_passed = 2)
               => result.score = FAdd[Dot8, FMul[FDivInt[2, 3], Dot2]]

C2_Witness ==
    /\ Completed
    /\ total_cells = 2 /\ matches = 1 /\ hidden_tests_passed = 2
    /\ \E a \in HiddenAddrs :
           student_file.sheet.cells[a] = None /\ solution_file.sheet.cells[a] = None
    /\ result.feedback[2] = "53.33"

\* The failure the inputs make the try block raise, "" if none.
FailureText ==
    IF student_file.err # "" THEN student_file.err
    ELSE IF solution_file.err # "" THEN solution_file.err
    ELSE IF SheetsPresent /\ (student_file.sheet.chart \/ solution_file.sheet.chart)
         THEN "'Chartsheet' object has no attribute 'max_column'"
    ELSE ""

Contains(feedback, text) == \E i \in 1..Len(feedback) : feedback[i] = text

\* C3: grade_excel_worksheet never raises: the call is at one of its steps or
\* has returned, a raised failure is caught at once, and every failure raised
\* while loading a workbook or reading cells ends in a returned result with
\* score 0.0 whose feedback contains the text of the error.
C3_NeverRaises ==
    /\ pc \in {"load", "verify", "indicator", "hidden", "score", "returned"}
    /\ raised # "" => pc = "returned" /\ raised = FailureText
    /\ (pc = "returned" /\ FailureText # "") =>
           /\ result.score = Zero
           /\ Contains(result.feedback, FailureText)
           /\ Head(result.feedback) = "Error grading your submission: "

C3_Witness ==
    /\ pc = "returned"
    /\ Loaded /\ SheetsPresent /\ student_file.sheet.chart
    /\ raised = "'Chartsheet' object has no attribute 'max_column'"
    /\ result.score = Zero

\* C4: with both workbooks loaded and the sheet 'blank' or the sheet
\* 'solution' missing, the call returns score 0.0 with the 'not found'
\* message of the missing sheet (the student's when both are missing), and no
\* part of the run reads or compares a cell: the passes are never entered and
\* matches, total_cells and hidden_tests_passed stay 0.
C4_MissingSheetShortCircuits ==
    (Loaded /\ ~SheetsPresent) =>
        /\ pc \in {"load", "verify", "returned"}
        /\ matches = 0 /\ total_cells = 0 /\ hidden_tests_passed = 0
        /\ raised = ""
        /\ pc = "returned" =>
              /\ result.score = Zero
              /\ result.feedback =
                    IF "blank" \notin student_file.sheetnames
                    THEN <<"Error: Worksheet '", "blank", "' not found in your submission.">>
                    ELSE <<"Error: Solution worksheet not found.">>

C4_Witness ==
    /\ pc = "returned" /\ Loaded
    /\ "blank" \in student_file.sheetnames
    /\ "solution" \notin solution_file.sheetnames
    /\ Len(student_file.sheet.row1) = MaxCol
    /\ result.feedback = <<"Error: Solution worksheet not found.">>

\* The feedback of a completed grading (grader.py:84-91) for every value of
\* the three counters, with the hidden-test list the module defines.
FeedbackOf ==
    [m \in 0..MaxCol, t \in 0..MaxCol, passed \in 0..Len(HIDDEN_TEST_CELLS) |->
        GradeFeedback(TotalScore(YnScore(m, t),
                                 HiddenScore(passed, Len(HIDDEN_TEST_CELLS))),
                      m, t)]

\* The feedback of a second grading call on the same sheets with the
\* hidden-test cells replaced.

FeedbackWithHidden(studentCells, solutionCells) ==
    LET student_sheet  == [student_file.sheet EXCEPT !.cells = studentCells]
        solution_sheet == [solution_file.sheet EXCEPT !.cells = solutionCells]
        max_col == SetMax({max_column(solution_sheet), max_column(student_sheet)})
        passed == HiddenLoop(hidden_test_cells, student_sheet, solution_sheet, 0)
    IN FeedbackOf[
           IndicatorLoop(5, max_col, student_sheet, solution_sheet, "matches"),
           IndicatorLoop(5, max_col, student_sheet, solution_sheet, "total_cells"),
           passed]

\* C5 as stated: two grading calls that differ only in the values of the
\* hidden-test cells return identical feedback strings, whatever number of
\* hidden tests each passes.
C5_FeedbackHidesHidden_Original ==
    Completed =>
        \A sc \in StudentHiddenCells, lc \in SolutionHiddenCells :
            FeedbackWithHidden(sc, lc) = result.feedback

\* C5 amended: two grading calls that differ only in the values of the
\* hidden-test cells return feedback strings that are identical when the two
\* calls pass the same number of hidden tests, and that otherwise differ at
\* most in the percentage: the sentence with matches and total_cells is the
\* same.
C5_FeedbackHidesHidden ==
    Completed =>
        \A sc \in StudentHiddenCells, lc \in SolutionHiddenCells :
            \A other \in {FeedbackWithHidden(sc, lc)}, own \in {PassCount} :
               /\ Cardinality(PassingTests(sc, lc)) = own
                      => other = result.feedback
               /\ Len(other) = Len(result.feedback)
               /\ \A i \in 1..Len(other) : i # 2 => other[i] = result.feedback[i]

C5_Witness ==
    /\ Completed /\ total_cells > 0
    /\ PassCount = 1
    /\ \E sc \in StudentHiddenCells :
          /\ sc # student_file.sheet.cells
          /\ Cardinality(PassingTests(sc, solution_file.sheet.cells)) = 1
          /\ FeedbackWithHidden(sc, solution_file.sheet.cells) = result.feedback

\* The run is past the indicator-row pass.
PastIndicator == pc \in {"hidden", "score"} \/ Completed

\* C6: after the indicator-row pass total_cells is the number of columns from
\* 5 to the larger max_column with a value in both sheets, and matches the
\* number of those at which the raw values are equal (no case folding,
\* trimming or tolerance); a column the solution leaves blank is not counted.
C6_IndicatorCounts ==
    PastIndicator =>
        /\ total_cells = Cardinality(CountedCols)
        /\ matches = Cardinality({c \in CountedCols :
                         /\ StudentAt(c).t = SolutionAt(c).t
                         /\ StudentAt(c).s = SolutionAt(c).s
                         /\ StudentAt(c).neg = SolutionAt(c).neg
                         /\ StudentAt(c).n = SolutionAt(c).n})
        /\ total_cells <= Cardinality({c \in ScanCols : c >= 5 /\ SolutionAt(c) # None})

C6_Witness ==
    /\ PastIndicator
    /\ StudentAt(1) # None /\ SolutionAt(4) # None
    /\ \E c \in ScanCols : StudentAt(c) # None /\ SolutionAt(c) = None
    /\ \E c \in CountedCols : StudentAt(c) = StrVal(Text(<<"y">>))
    /\ total_cells = 1 /\ matches = 0

----------------------------------------------------------------------------
(* A grading call with HIDDEN_TEST_CELLS emptied *)

InitEmptyHidden ==
    /\ entry = "local" /\ pc = "load"
    /\ hidden_test_cells = <<>>
    /\ student_file \in StudentFiles
    /\ solution_file \in SolutionFiles
    /\ GradeStart /\ MainIdle /\ EqIdle

SpecEmptyHidden == InitEmptyHidden /\ [][Next]_vars

\* C10: with an empty hidden-test list grading does not fail: hidden_score is
\* 0.0 and the call returns the normal result, total_score = yn_score * 0.8
\* with the matches/total_cells feedback.
C10_EmptyHiddenListGrades ==
    (pc = "returned" /\ Loaded /\ SheetsPresent
       /\ ~student_file.sheet.chart /\ ~solution_file.sheet.chart) =>
        /\ raised = ""
        /\ result.score = FMul[YnScore(matches, total_cells), Dot8]
        /\ Len(result.feedback) = 7
        /\ Head(result.feedback) = "Your score: "

----------------------------------------------------------------------------
(* autograder.py run as a script: __main__, main, send_feedback *)

COURSERA_PARTID == "Lg9eS"

\* Path(f).suffix: from the last dot on, unless that dot starts or ends the name.
LastDot[name \in Seq(Nat)] ==
    LET dots == {i \in 1..Len(name) : name[i] = Ord(".")}
    IN IF dots = {} THEN 0 ELSE SetMax(dots)

Suffix[name \in Seq(Nat)] ==
    LET i == LastDot[name]
    IN IF 1 < i /\ i < Len(name) THEN SubSeq(name, i, Len(name)) ELSE <<>>

\* extension in ['.xlsx', '.xlsm']
Accepted(name) ==
    Lower[Suffix[name]] \in {Text(<<".", "x", "l", "s", "x">>),
                             Text(<<".", "x", "l", "s", "m">>)}

\* The for loop over os.listdir: the first accepted name, <<>> for None.
RECURSIVE FirstAccepted(_)
FirstAccepted(names) ==
    IF names = <<>> THEN <<>>
    ELSE IF Accepted(Head(names)) THEN Head(names)
    ELSE FirstAccepted(Tail(names))

\* The text of an OSError of the directory listing, of the copy and of the
\* write of feedback.json.
ListError  == "[Errno 2] No such file or directory: '/shared/submission'"
CopyError  == "[Errno 13] Permission denied: '/grader/submission.xlsx'"
WriteError == "[Errno 13] Permission denied: '/shared/feedback.json'"

\* send_feedback(score, msg), after print_stderr of the lines errs: the post
\* is printed, then written to the feedback file; a failed write is reported
\* on stderr only.
send_feedback(score, msg, errs) ==
    LET post == [fractionalScore |-> score, feedback |-> msg]
    IN /\ stdout' = Append(stdout, post)
       /\ IF write_err = ""
          THEN feedback_json' = <<post>> /\ stderr' = stderr \o errs
          ELSE /\ stderr' = stderr \o errs
                              \o <<"Error writing feedback: " \o write_err>>
               /\ UNCHANGED feedback_json

\* The except branch of __main__ reports nothing to the learner (a wrong
\* variant).
TopLevelExcept_Silent(e) ==
    /\ stderr' = Append(stderr, "Error in autograder: " \o e)
    /\ UNCHANGED <<stdout, feedback_json>>

\* The except branch of __main__.
TopLevelExcept(e) ==
    send_feedback(FZero, <<"Please provide the partId.">>,
                  <<"Error in autograder: " \o e>>)

\* main: "Verify correct part ID".
CheckPartId ==
    /\ entry = "platform" /\ pc = "main"
    /\ IF part_id # COURSERA_PARTID
       THEN /\ send_feedback(FZero,
                   <<"Please verify that you have submitted to the proper part of the assignment.">>,
                   <<"Cannot find matching partId. Please double check your partId's">>)
            /\ pc' = "exit"
       ELSE /\ pc' = "scan"
            /\ UNCHANGED <<stdout, feedback_json, stderr>>
    /\ UNCHANGED <<entry, gradeVars, part_id, submission_dir, copy_err, write_err,
                   learner_file, scanned, eqVars>>

\* main: "Find student submission" and "Check if submission was found"; an
\* os.listdir error leaves main and reaches the except branch of __main__.
FindSubmission ==
    /\ entry = "platform" /\ pc = "scan"
    /\ scanned' = TRUE
    /\ IF submission_dir.err # ""
       THEN /\ TopLevelExcept(submission_dir.err)
            /\ pc' = "exit"
            /\ UNCHANGED learner_file
       ELSE /\ learner_file' = FirstAccepted(submission_dir.names)
            /\ IF learner_file' = <<>>
               THEN /\ send_feedback(FZero,
                          <<"Your submission file does not have the right file extension. Please submit an Excel file (.xlsx, .xlsm).">>,
                          <<>>)
                    /\ pc' = "exit"
               ELSE /\ pc' = "copy"
                    /\ UNCHANGED <<stdout, feedback_json, stderr>>
    /\ UNCHANGED <<entry, gradeVars, part_id, submission_dir, copy_err, write_err,
                   eqVars>>

\* main: "Copy submission to destination".
CopySubmission ==
    /\ entry = "platform" /\ pc = "copy"
    /\ IF copy_err # ""
       THEN /\ send_feedback(FZero, <<"Error processing your submission file.">>,
                             <<"Error copying submission: " \o copy_err>>)
            /\ pc' = "exit"
       ELSE /\ pc' = "load"
            /\ UNCHANGED <<stdout, feedback_json, stderr>>
    /\ UNCHANGED <<entry, gradeVars, part_id, submission_dir, copy_err, write_err,
                   learner_file, scanned, eqVars>>

\* main: "Send feedback" with the result of grade_excel_worksheet.
SendResult ==
    /\ entry = "platform" /\ pc = "returned"
    /\ send_feedback(result.score, result.feedback, <<>>)
    /\ pc' = "exit"
    /\ UNCHANGED <<entry, gradeVars, part_id, submission_dir, copy_err, write_err,
                   learner_file, scanned, eqVars>>

\* Names a submission directory may hold.
FileNames ==
    { Text(<<"h", ".", "x", "l", "s", "x">>), Text(<<"h", ".", "X", "L", "S", "M">>),
      Text(<<"h", ".", "t", "x", "t">>), Text(<<".", "x", "l", "s", "x">>) }

Listings ==
    {[err |-> ListError, names |-> <<>>]}
    \cup {[err |-> "", names |-> ns] : ns \in SeqsUpTo(FileNames, MaxFiles)}

\* Sheets of a platform run: one indicator cell, in column 5.
PlatformSheets(rowValues, hiddenCells) ==
    {[chart |-> FALSE, row1 |-> <<None, None, None, None, v>>, cells |-> h] :
        v \in rowValues, h \in hiddenCells}

PlatformStudentFiles ==
    Files(STUDENT_SHEET_NAME,
          PlatformSheets({StrVal(Text(<<"Y">>)), StrVal(Text(<<"y">>))},
                         {[a \in HiddenAddrs |-> FloatVal(10001, 10000)]}))
PlatformSolutionFiles ==
    Files(SOLUTION_SHEET_NAME,
          PlatformSheets({StrVal(Text(<<"Y">>))}, {[a \in HiddenAddrs |-> IntVal(1)]}))

InitMain ==
    /\ entry = "platform" /\ pc = "main"
    /\ hidden_test_cells = HIDDEN_TEST_CELLS
    /\ part_id \in {COURSERA_PARTID, "", "abcde"}
    /\ submission_dir \in Listings
    /\ copy_err \in {"", CopyError} /\ write_err \in {"", WriteError}
    /\ student_file \in PlatformStudentFiles
    /\ solution_file \in PlatformSolutionFiles
    /\ learner_file = <<>> /\ scanned = FALSE
    /\ stdout = <<>> /\ feedback_json = <<>> /\ stderr = <<>>
    /\ GradeStart /\ EqIdle

NextMain ==
    \/ CheckPartId
    \/ FindSubmission
    \/ CopySubmission
    \/ LoadWorkbooks
    \/ VerifySheets
    \/ IndicatorPass
    \/ HiddenPass
    \/ ComputeScore
    \/ SendResult

\* The script is one sequential process: a step that can be taken is taken.
SpecMain == InitMain /\ [][NextMain]_vars /\ WF_vars(NextMain)

\* A run that reaches a grading that runs to its end.
GradedRun ==
    /\ part_id = "Lg9eS"
    /\ submission_dir.err = ""
    /\ \E i \in 1..Len(submission_dir.names) :
           Lower[Suffix[submission_dir.names[i]]]
               \in {Text(<<".", "x", "l", "s", "x">>), Text(<<".", "x", "l", "s", "m">>)}
    /\ copy_err = ""
    /\ FailureText = "" /\ SheetsPresent

C9_ExitState ==
    pc = "exit" =>
        /\ Len(stdout) = 1
        /\ write_err = "" => feedback_json = stdout
        /\ ~GradedRun => stdout[1].fractionalScore = Zero
        /\ part_id # "Lg9eS" =>
              /\ ~scanned
              /\ student_wb = NoWb /\ solution_wb = NoWb /\ result = NoResult
              /\ stdout[1].feedback =
                    <<"Please verify that you have submitted to the proper part of the assignment.">>

\* C9: every run of the script ends having emitted exactly one feedback
\* result, whatever path it takes; on every path other than a grading that
\* ran to its end the fractionalScore is 0.0, and on a part-id mismatch the
\* result is emitted without the directory being scanned or the grading
\* being started.
C9_AlwaysEmits == []C9_ExitState /\ <>(pc = "exit")

C9_Witness ==
    /\ pc = "exit"
    /\ part_id = "Lg9eS" /\ submission_dir.err # ""
    /\ scanned
    /\ stdout = <<[fractionalScore |-> Zero,
                   feedback |-> <<"Please provide the partId.">>]>>

----------------------------------------------------------------------------
(* A direct call of equal_values *)

\* The values a direct call is tried on.
EqValues ==
    { None, EmptyStr,
      StrVal(Text(<<"Y", "e", "s">>)), StrVal(Text(<<" ", "Y", "e", "s", " ">>)),
      StrVal(Text(<<"y", "e", "s">>)), StrVal(Text(<<"N", "o">>)), StrVal(Text(<<" ">>)),
      StrVal(<<160>> \o Text(<<"y", "e", "s", "\r">>)),
      StrVal(<<201>> \o Text(<<"c", "o", "l", "e">>)),
      StrVal(<<233>> \o Text(<<"c", "o", "l", "e">>)),
      StrVal(<<913, 931>>), StrVal(<<945, 962>>), StrVal(<<945, 963>>),
      StrVal(<<304>>), StrVal(<<105, 775>>), StrVal(<<8490>>), StrVal(Text(<<"k">>)),
      IntVal(0), IntVal(1), IntVal(2), IntVal(0 - 1),
      FloatVal(1, 1), FloatVal(10001, 10000), FloatVal(9999, 10000),
      FloatVal(1, 10000), FloatVal(20001, 10000), FloatVal(0 - 10001, 10000),
      FloatVal(101, 100),
      BoolVal(TRUE), BoolVal(FALSE), DateVal(1), DateVal(2) }

InitEq ==
    /\ entry = "equal_values" /\ pc = "call"
    /\ val1 \in EqValues /\ val2 \in EqValues /\ eq_result = FALSE
    /\ GradeIdle /\ MainIdle

CallEqualValues ==
    /\ entry = "equal_values" /\ pc = "call"
    /\ eq_result' = equal_values(val1, val2)
    /\ pc' = "returned"
    /\ UNCHANGED <<entry, val1, val2, gradeVars, mainVars>>

NextEq == CallEqualValues

SpecEq == InitEq /\ [][NextEq]_vars

----------------------------------------------------------------------------
(* Properties of equal_values (specification SpecEq) *)

IsBlankValue(v) == v.t = "none" \/ (v.t = "str" /\ v.s = <<>>)
IsNumberValue(v) == v.t \in {"int", "float"}

\* The exact x + y of two doubles x, y >= 0, as [m, e] not rounded.
MagSum[x \in Doubles, y \in Doubles] ==
    IF x.m = <<>> THEN y
    ELSE IF y.m = <<>> THEN x
    ELSE IF x.e <= y.e
    THEN [m |-> BigAdd[x.m, BigShl[y.m, y.e - x.e]], e |-> x.e]
    ELSE [m |-> BigAdd[BigShl[x.m, x.e - y.e], y.m], e |-> y.e]

\* |a - b| < 1/10000 in exact arithmetic: with d * 2^e the exact difference
\* of the two numbers, d * 10000 < 2^(-e).
ExactlyBelowTolerance(a, b) ==
    LET diff == IF a.neg = b.neg THEN MagDiff[a.n, b.n] ELSE MagSum[a.n, b.n]
    IN \/ diff.m = <<>>
       \/ diff.e < 0 /\ BigLess[BigMulSmall[diff.m, 10000, 0], BigShl[<<1>>, 0 - diff.e]]

\* The four-rule policy with a boolean not a number.
FourRulePolicy(a, b) ==
    IF IsBlankValue(a) /\ IsBlankValue(b) THEN TRUE
    ELSE IF IsNumberValue(a) /\ IsNumberValue(b) THEN ExactlyBelowTolerance(a, b)
    ELSE IF a.t = "str" /\ b.t = "str" THEN Lower[Strip[a.s]] = Lower[Strip[b.s]]
    ELSE a.t = b.t /\ a.s = b.s /\ a.neg = b.neg /\ a.n = b.n

\* C7: equal_values follows the four-rule policy: blank equals blank, two
\* numbers are equal iff they differ by less than 0.0001, two texts iff equal
\* after trimming and ignoring case, every other pair iff of the same type
\* and value; a boolean is not a number, so equal_values(True, 1) is false.
C7_FourRulePolicy ==
    pc = "returned" => eq_result = FourRulePolicy(val1, val2)

\* C8: equal_values is symmetric.
C8_Symmetric ==
    pc = "returned" => eq_result = equal_values(val2, val1)

C8_Witness ==
    /\ pc = "returned"
    /\ val1 = StrVal(<<>>) /\ val2 = None
    /\ eq_result = TRUE

====
